---- MODULE Spec2Model ----
(***************************************************************************)
(* A model of app.py: the Ollama client (get_models, chat_stream), the     *)
(* response splitter parse_deepseek_response and the chat page main().     *)
(*                                                                         *)
(* Text is a sequence of code points, each written as a one-element        *)
(* string; a code point outside ASCII is written by its name ("U+C624" is  *)
(* the single code point 0xC624).                                          *)
(***************************************************************************)
EXTENDS Naturals, Sequences, FiniteSets

VARIABLES
    \* parse_deepseek_response called on its own
    split_pc, response, split_result, resplit_result,
    \* the sidebar's connection check: the server's answers and the build
    \* (inputs), the position, and the values of is_connected and models
    conn_pc, probe, tags, json_error_wrapped, is_connected, models,
    \* chat_stream: the position of the generator, the lines the server sends
    \* (input), the status code of the response (0: none), the lines read, the fragments yielded, the exception that left
    \* the generator, the requests posted, whether the transport failed
    cs_pc, wire, status_code, lines_read, yielded, exc, posts, failed,
    \* st.session_state
    messages, show_thinking,
    \* main(): the position of the script run and its locals
    pc, full_response, thinking, final_answer, thinking_placeholder,
    \* what the last script run did: the sidebar's message, the turn's end
    status, turn_end,
    \* history: the fragments response_stream yielded in this turn, and the
    \* number of fragments delivered in the session
    fragments, delivered

splitVars == <<split_pc, response, split_result, resplit_result>>
connVars == <<conn_pc, probe, tags, json_error_wrapped, is_connected, models>>
streamVars == <<cs_pc, wire, status_code, lines_read, yielded, exc, posts, failed>>
mainVars == <<messages, show_thinking, pc, full_response, thinking,
              final_answer, thinking_placeholder, status, turn_end,
              fragments, delivered>>
vars == <<splitVars, connVars, streamVars, mainVars>>

----------------------------------------------------------------------------
(* Bounds *)

\* pieces a text handed to the splitter is made of
MaxPieces == 5
\* fragments the streams of one session deliver
MaxChunks == 3
\* turns the conversation holds
MaxMessages == 3
\* lines the server sends in one response
MaxLines == 3
\* model descriptors in the catalog
MaxModels == 3

----------------------------------------------------------------------------
(* Text helpers *)

Min(S) == CHOOSE x \in S : \A y \in S : x <= y

\* s[i..] as Python's s[i-1:]
Tail_from(s, i) == SubSeq(s, i, Len(s))

\* the literal m occurs in s at position i
MatchAt(s, i, m) ==
    /\ i >= 1
    /\ i + Len(m) - 1 <= Len(s)
    /\ \A k \in 1..Len(m) : s[i + k - 1] = m[k]

\* str.startswith
startswith(s, m) == MatchAt(s, 1, m)

\* m in s
Contains(s, m) == \E i \in 1..Len(s) : MatchAt(s, i, m)

\* Python's str.isspace for one code point (the ASCII whitespace)
IsSpace(c) == c \in {" ", "\t", "\n", "\r", "\f"}

RECURSIVE lstrip_from(_, _)
lstrip_from(s, i) ==
    IF i <= Len(s) /\ IsSpace(s[i]) THEN lstrip_from(s, i + 1) ELSE i

RECURSIVE rstrip_to(_, _, _)
rstrip_to(s, lo, j) ==
    IF j >= lo /\ IsSpace(s[j]) THEN rstrip_to(s, lo, j - 1) ELSE j

\* str.strip()
strip(s) ==
    LET lo == lstrip_from(s, 1)
        hi == rstrip_to(s, lo, Len(s))
    IN  SubSeq(s, lo, hi)

RECURSIVE Concat(_)
Concat(ps) == IF ps = <<>> THEN <<>> ELSE Head(ps) \o Concat(Tail(ps))

----------------------------------------------------------------------------
(* thinking_pattern = r'<think>(.*?)</think>' with re.DOTALL *)

OpenTag == <<"<", "t", "h", "i", "n", "k", ">">>
CloseTag == <<"<", "/", "t", "h", "i", "n", "k", ">">>

NoMatch == [found |-> FALSE, start |-> 0, close |-> 0]

\* A greedy group (.*): the longest group first, so the last </think> from j on.
LazyCloseGreedy(s, j) ==
    LET C == {k \in j..Len(s) : MatchAt(s, k, CloseTag)}
    IN  IF C = {} THEN 0 ELSE CHOOSE k \in C : \A l \in C : l <= k

\* The lazy group (.*?) followed by the literal </think>: the engine tries the
\* shortest group first and lengthens it by one code point (any code point,
\* DOTALL) until </think> matches at j.  0: no way to match.
RECURSIVE LazyClose(_, _)
LazyClose(s, j) ==
    IF j + Len(CloseTag) - 1 > Len(s) THEN 0
    ELSE IF MatchAt(s, j, CloseTag) THEN j
    ELSE LazyClose(s, j + 1)

\* A pattern that also ends the group at the end of the text.
MatchHereOpenEnded(s, i) ==
    IF MatchAt(s, i, OpenTag)
    THEN LET c == LazyClose(s, i + Len(OpenTag))
         IN  [found |-> TRUE, start |-> i,
              close |-> IF c = 0 THEN Len(s) + 1 ELSE c]
    ELSE NoMatch

\* The pattern tried at start position i: <think>, then the lazy group.
MatchHere(s, i) ==
    IF MatchAt(s, i, OpenTag)
    THEN LET c == LazyClose(s, i + Len(OpenTag))
         IN  IF c = 0 THEN NoMatch ELSE [found |-> TRUE, start |-> i, close |-> c]
    ELSE NoMatch

\* re's scan: the leftmost start position, from pos on, at which the pattern
\* matches.
RECURSIVE ScanFrom(_, _)
ScanFrom(s, pos) ==
    IF pos > Len(s) THEN NoMatch
    ELSE LET m == MatchHere(s, pos)
         IN  IF m.found THEN m ELSE ScanFrom(s, pos + 1)

\* re.search(thinking_pattern, s, re.DOTALL)
re_search(s) == ScanFrom(s, 1)

\* match.group(1)
group1(s, m) == SubSeq(s, m.start + Len(OpenTag), m.close - 1)

\* the position after the match
MatchEnd(s, m) == m.close + Len(CloseTag)

\* re.sub(thinking_pattern, '', s, flags=re.DOTALL): one left-to-right pass
\* over the non-overlapping matches, the text between them kept.
RECURSIVE SubFrom(_, _)
SubFrom(s, pos) ==
    LET m == ScanFrom(s, pos)
    IN  IF ~m.found THEN Tail_from(s, pos)
        ELSE SubSeq(s, pos, m.start - 1) \o SubFrom(s, MatchEnd(s, m))

\* re.sub with count=1
re_sub_first(s) ==
    LET m == ScanFrom(s, 1)
    IN  IF ~m.found THEN s
        ELSE SubSeq(s, 1, m.start - 1) \o Tail_from(s, MatchEnd(s, m))

re_sub(s) == SubFrom(s, 1)

\* parse_deepseek_response(response) -> (thinking, final_answer)
parse_deepseek_response(resp) ==
    LET thinking_match == re_search(resp)
    IN  IF thinking_match.found
        THEN [thinking |-> strip(group1(resp, thinking_match)),
              final_answer |-> strip(re_sub(resp))]
        ELSE [thinking |-> <<>>, final_answer |-> strip(resp)]

----------------------------------------------------------------------------
(* OllamaClient *)

DEEPSEEK_MODEL == "deepseek-r1:8b"

\* str(n) for a natural number
Digit(d) == <<"0", "1", "2", "3", "4", "5", "6", "7", "8", "9">>[d + 1]

RECURSIVE str_int(_)
str_int(n) == IF n < 10 THEN <<Digit(n)>> ELSE str_int(n \div 10) \o <<Digit(n % 10)>>

\* What the server may answer to GET /api/tags: no answer (the request raises
\* a RequestException) or a response with a status code and a body.
Failure == [kind |-> "failure"]
Response(code, body) == [kind |-> "response", status_code |-> code, body |-> body]

\* check_connection()
check_connection(resp) ==
    IF resp.kind = "failure" THEN FALSE ELSE resp.status_code = 200

\* [model["name"] for model in models]: KeyError at a descriptor without name
NamesOf(descs) ==
    IF \E i \in 1..Len(descs) : "name" \notin DOMAIN descs[i]
    THEN [raised |-> "KeyError", models |-> <<>>]
    ELSE [raised |-> "none", models |-> [i \in 1..Len(descs) |-> descs[i].name]]

\* the body of get_models once the response is there
\* (wrapped: the installed requests raises its own JSONDecodeError,
\* a RequestException, from response.json(); older ones raise ValueError)
ModelsOfResponse(resp, wrapped) ==
    IF resp.status_code # 200 THEN [raised |-> "none", models |-> <<>>]
    ELSE CASE resp.body.json = "invalid" ->
                  IF wrapped
                  THEN [raised |-> "none", models |-> <<>>]
                  ELSE [raised |-> "ValueError", models |-> <<>>]
           [] resp.body.json \in {"list", "number", "null"} ->
                  [raised |-> "AttributeError", models |-> <<>>]
           [] resp.body.json = "object" ->
                  IF "models" \notin DOMAIN resp.body.fields
                  THEN [raised |-> "none", models |-> <<>>]
                  ELSE IF resp.body.fields.models.type # "list"
                  THEN [raised |-> "TypeError", models |-> <<>>]
                  ELSE NamesOf(resp.body.fields.models.items)

\* get_models(): [raised |-> the exception that leaves it, models |-> the list
\* it returns]
get_models(resp, wrapped) ==
    IF resp.kind = "failure" THEN [raised |-> "none", models |-> <<>>]
    ELSE ModelsOfResponse(resp, wrapped)

\* "오류 발생: HTTP " + str(status_code)
HttpError(code) ==
    <<"U+C624", "U+B958", " ", "U+BC1C", "U+C0DD", ":", " ", "H", "T", "T", "P", " ">>
        \o str_int(code)

\* "연결 오류: " + str(e)
ConnError(e) ==
    <<"U+C5F0", "U+ACB0", " ", "U+C624", "U+B958", ":", " ">> \o e

\* a handler that swallows the failure
OnRequestExceptionSilent(out, e) == out

\* except requests.exceptions.RequestException as e: yield the error string;
\* the generator then returns
OnRequestException(out, e) == Append(out, ConnError(e))

WordMessage == <<"m", "e", "s", "s", "a", "g", "e">>
WordContent == <<"c", "o", "n", "t", "e", "n", "t">>

\* 'message' in data / 'content' in data['message'], by the type of the value
\* on the right: a key of an object, a substring of a string, an element of a
\* list, TypeError otherwise.  "yes", "no" or the exception.
PyIn(word, key, v) ==
    CASE v.type = "object" -> IF key \in DOMAIN v.fields THEN "yes" ELSE "no"
      [] v.type = "string" -> IF Contains(v.value, word) THEN "yes" ELSE "no"
      [] v.type = "list" -> IF word \in v.items THEN "yes" ELSE "no"
      [] OTHER -> "TypeError"

\* One line of response.iter_lines() in the loop of chat_stream:
\* [yield |-> the fragments yielded (none or one),
\*  next |-> "continue", "break" or "raise", exc |-> the exception raised]
Step(y, n, e) == [yield |-> y, next |-> n, exc |-> e]

\* data.get('done', False)
DoneOf(data) ==
    IF "done" \in DOMAIN data.fields THEN data.fields.done ELSE FALSE

\* the two statements of the try block after json.loads
HandleData(data) ==
    LET hasMessage == PyIn(WordMessage, "message", data)
    IN  IF hasMessage = "TypeError" THEN Step(<<>>, "raise", "TypeError")
        ELSE IF hasMessage = "yes" /\ data.type # "object"
        THEN Step(<<>>, "raise", "TypeError")   \* data['message'] of a string
        ELSE IF hasMessage = "no" /\ data.type # "object"
        THEN Step(<<>>, "raise", "AttributeError")   \* data.get
        ELSE LET hasContent ==
                     IF hasMessage = "yes"
                     THEN PyIn(WordContent, "content", data.fields.message)
                     ELSE "no"
             IN  IF hasContent = "TypeError" THEN Step(<<>>, "raise", "TypeError")
                 ELSE IF hasContent = "yes" /\ data.fields.message.type # "object"
                 THEN Step(<<>>, "raise", "TypeError")   \* ['content'] of a string or list
                 ELSE Step(IF hasContent = "yes"
                           THEN <<data.fields.message.fields.content>> ELSE <<>>,
                           IF DoneOf(data) THEN "break" ELSE "continue", "none")

\* the body of the for loop
ProcessLine(line) ==
    CASE line.raw = "empty" -> Step(<<>>, "continue", "none")
      [] line.raw = "bad_utf8" -> Step(<<>>, "raise", "UnicodeDecodeError")
      [] line.raw = "bad_json" -> Step(<<>>, "continue", "none")   \* except JSONDecodeError
      [] line.raw = "json" -> HandleData(line.data)

----------------------------------------------------------------------------
(* The parts at rest: each specification below runs one part and leaves the *)
(* others as they are here.                                                 *)

NoResult == [thinking |-> <<>>, final_answer |-> <<>>]
NoModels == [raised |-> "none", models |-> <<>>]

SplitIdle ==
    /\ split_pc = "off"
    /\ response = <<>>
    /\ split_result = NoResult
    /\ resplit_result = NoResult

ConnIdle ==
    /\ conn_pc = "off"
    /\ probe = Failure
    /\ tags = Failure
    /\ json_error_wrapped = TRUE
    /\ is_connected = FALSE
    /\ models = NoModels

StreamIdle ==
    /\ cs_pc = "off"
    /\ wire = <<>>
    /\ status_code = 0
    /\ lines_read = 0
    /\ yielded = <<>>
    /\ exc = "none"
    /\ posts = 0
    /\ failed = FALSE

MainIdle ==
    /\ messages = <<>>
    /\ show_thinking = TRUE
    /\ pc = "off"
    /\ full_response = <<>>
    /\ thinking = <<>>
    /\ final_answer = <<>>
    /\ thinking_placeholder = <<>>
    /\ status = "none"
    /\ turn_end = "none"
    /\ fragments = <<>>
    /\ delivered = 0

----------------------------------------------------------------------------
(* The splitter on its own: every text of at most MaxPieces pieces *)

Pieces ==
    { OpenTag \o <<"a">>, CloseTag,
      <<"<", "t", "h", "i">>, <<"n", "k", ">">>,
      <<"a">>, <<"\n">> }

Texts == { Concat(ps) : ps \in UNION { [1..n -> Pieces] : n \in 0..MaxPieces } }

SplitInit ==
    /\ split_pc = "start"
    /\ response \in Texts
    /\ split_result = NoResult
    /\ resplit_result = NoResult
    /\ ConnIdle /\ StreamIdle /\ MainIdle

\* thinking, final_answer = parse_deepseek_response(response)
Split ==
    /\ split_pc = "start"
    /\ split_result' = parse_deepseek_response(response)
    /\ split_pc' = "split"
    /\ UNCHANGED <<response, resplit_result, connVars, streamVars, mainVars>>

\* the answer handed to the splitter again
Resplit ==
    /\ split_pc = "split"
    /\ resplit_result' = parse_deepseek_response(split_result.final_answer)
    /\ split_pc' = "resplit"
    /\ UNCHANGED <<response, split_result, connVars, streamVars, mainVars>>

SplitNext == Split \/ Resplit

SplitSpec == SplitInit /\ [][SplitNext]_vars

----------------------------------------------------------------------------
(* The connection check of the sidebar: check_connection, then get_models *)

\* model descriptors of the catalog: two with a name, one without
Descriptors ==
    { [name |-> DEEPSEEK_MODEL, size |-> 1],
      [name |-> "llama3:8b", size |-> 1],
      [size |-> 1] }

Catalogs == UNION { [1..n -> Descriptors] : n \in 0..MaxModels }

\* bodies of a response of /api/tags
Bodies ==
    { [json |-> "invalid"], [json |-> "list"], [json |-> "number"], [json |-> "null"],
      [json |-> "object", fields |-> [error |-> "x"]],
      [json |-> "object", fields |-> [models |-> [type |-> "null"]]] }
    \cup { [json |-> "object", fields |-> [models |-> [type |-> "list", items |-> c]]] :
              c \in Catalogs }

TagsResponses ==
    {Failure} \cup { Response(code, b) : code \in {200, 500}, b \in Bodies }

ProbeResponses == {Failure, Response(200, [json |-> "invalid"]),
                   Response(500, [json |-> "invalid"])}

ConnInit ==
    /\ conn_pc = "start"
    /\ probe \in ProbeResponses
    /\ tags \in TagsResponses
    /\ json_error_wrapped \in BOOLEAN
    /\ is_connected = FALSE
    /\ models = NoModels
    /\ SplitIdle /\ StreamIdle /\ MainIdle

\* is_connected = st.session_state.ollama_client.check_connection()
CheckConnection ==
    /\ conn_pc = "start"
    /\ is_connected' = check_connection(probe)
    /\ conn_pc' = IF is_connected' THEN "connected" ELSE "done"
    /\ UNCHANGED <<probe, tags, json_error_wrapped, models,
                   splitVars, streamVars, mainVars>>

\* models = st.session_state.ollama_client.get_models()
GetModels ==
    /\ conn_pc = "connected"
    /\ models' = get_models(tags, json_error_wrapped)
    /\ conn_pc' = IF models'.raised = "none" THEN "done" ELSE "raised"
    /\ UNCHANGED <<probe, tags, json_error_wrapped, is_connected,
                   splitVars, streamVars, mainVars>>

ConnNext == CheckConnection \/ GetModels

ConnSpec == ConnInit /\ [][ConnNext]_vars

----------------------------------------------------------------------------
(* chat_stream: the generator, one line of the response at a time *)

Text_a == <<"a">>
Text_b == <<"b">>

JsonObject(f) == [type |-> "object", fields |-> f]
AssistantMessage(c) == JsonObject([role |-> "assistant", content |-> c])

JsonLine(data) == [raw |-> "json", data |-> data]

\* the lines a response is made of
Lines ==
    { [raw |-> "empty"], [raw |-> "bad_utf8"], [raw |-> "bad_json"],
      JsonLine([type |-> "number"]),
      JsonLine([type |-> "list", items |-> {}]),
      JsonLine(JsonObject([model |-> DEEPSEEK_MODEL, message |-> AssistantMessage(Text_a)])),
      JsonLine(JsonObject([model |-> DEEPSEEK_MODEL, message |-> AssistantMessage(Text_b)])),
      JsonLine(JsonObject([model |-> DEEPSEEK_MODEL, message |-> AssistantMessage(Text_a),
                           done |-> TRUE])),
      JsonLine(JsonObject([model |-> DEEPSEEK_MODEL, done |-> TRUE])),
      JsonLine(JsonObject([model |-> DEEPSEEK_MODEL, done |-> FALSE])),
      JsonLine(JsonObject([model |-> DEEPSEEK_MODEL,
                           message |-> JsonObject([role |-> "assistant"])])),
      JsonLine(JsonObject([model |-> DEEPSEEK_MODEL, message |-> [type |-> "number"]])),
      JsonLine(JsonObject([model |-> DEEPSEEK_MODEL,
                           message |-> [type |-> "string", value |-> WordContent]])),
      JsonLine(JsonObject([model |-> DEEPSEEK_MODEL,
                           message |-> [type |-> "string", value |-> Text_a]])) }

Wires == UNION { [1..n -> Lines] : n \in 0..MaxLines }

\* str(e) of the transport failures
TransportErrors == { <<"t", "i", "m", "e", "d", " ", "o", "u", "t">>,
                     <<"r", "e", "f", "u", "s", "e", "d">> }

StreamInit ==
    /\ cs_pc = "start"
    /\ wire \in Wires
    /\ status_code = 0
    /\ lines_read = 0
    /\ yielded = <<>>
    /\ exc = "none"
    /\ posts = 0
    /\ failed = FALSE
    /\ SplitIdle /\ ConnIdle /\ MainIdle

\* requests.post raises a RequestException
PostFails ==
    /\ cs_pc = "start"
    /\ \E e \in TransportErrors : yielded' = OnRequestException(yielded, e)
    /\ posts' = posts + 1
    /\ failed' = TRUE
    /\ cs_pc' = "ended"
    /\ UNCHANGED <<wire, status_code, lines_read, exc, splitVars, connVars, mainVars>>

\* requests.post returns a response
PostResponds ==
    /\ cs_pc = "start"
    /\ posts' = posts + 1
    /\ \E code \in {200, 500} :
          /\ status_code' = code
          /\ IF code = 200
             THEN cs_pc' = "reading" /\ yielded' = yielded
             ELSE cs_pc' = "ended" /\ yielded' = Append(yielded, HttpError(code))
    /\ UNCHANGED <<wire, lines_read, exc, failed, splitVars, connVars, mainVars>>

\* the loop takes the next line of response.iter_lines()
ReadLine ==
    /\ cs_pc = "reading"
    /\ lines_read < Len(wire)
    /\ LET step == ProcessLine(wire[lines_read + 1])
       IN  /\ yielded' = yielded \o step.yield
           /\ exc' = step.exc
           /\ cs_pc' = CASE step.next = "continue" -> "reading"
                         [] step.next = "break" -> "ended"
                         [] step.next = "raise" -> "raised"
    /\ lines_read' = lines_read + 1
    /\ UNCHANGED <<wire, status_code, posts, failed, splitVars, connVars, mainVars>>

\* response.iter_lines() is exhausted
EndOfLines ==
    /\ cs_pc = "reading"
    /\ lines_read = Len(wire)
    /\ cs_pc' = "ended"
    /\ UNCHANGED <<wire, status_code, lines_read, yielded, exc, posts, failed,
                   splitVars, connVars, mainVars>>

\* response.iter_lines() raises a RequestException: the connection dropped or
\* timed out before the next line
ReadFails ==
    /\ cs_pc = "reading"
    /\ \E e \in TransportErrors : yielded' = OnRequestException(yielded, e)
    /\ failed' = TRUE
    /\ cs_pc' = "ended"
    /\ UNCHANGED <<wire, status_code, lines_read, exc, posts, splitVars, connVars, mainVars>>

StreamNext == PostFails \/ PostResponds \/ ReadLine \/ EndOfLines \/ ReadFails

StreamSpec == StreamInit /\ [][StreamNext]_vars

----------------------------------------------------------------------------
(* main(): the chat page.  One action is one script run, except the chat     *)
(* turn, which is one step per fragment of response_stream.                  *)

\* "오류", the prefix the stored turn is tested for
ErrPrefix == <<"U+C624", "U+B958">>

\* f"오류가 발생했습니다: {str(e)}"
ErrorMsg(e) ==
    <<"U+C624", "U+B958", "U+AC00", " ", "U+BC1C", "U+C0DD", "U+D588", "U+C2B5",
      "U+B2C8", "U+B2E4", ":", " ">> \o e

\* the prefixes of template_options: the empty one and one that is not
\* (a short text stands for it)
template_options == { <<>>, <<"T", ":", "\n">> }

\* what the user types
Prompts == { <<"q">> }

\* sample_questions (short texts stand for them)
sample_questions == { <<"s", "1">> }

\* the fragments a stream delivers
Chunks ==
    { OpenTag \o <<"a">>, CloseTag,
      <<"<", "/", "t", "h", "i">>, <<"n", "k", ">", "b">>,
      <<"\n">>, ErrPrefix }

\* str(e) of an exception that leaves the stream
StreamExceptions == { <<"T", "y", "p", "e", "E", "r", "r", "o", "r">> }

UserTurn(content) == [role |-> "user", content |-> content]

\* full_response = chunk
AccumulateLast(full, chunk) == chunk

\* full_response += chunk
Accumulate(full, chunk) == full \o chunk

\* the turn the chat handler stores after the stream
AssistantTurn(full) ==
    LET r == IF ~startswith(full, ErrPrefix)
             THEN parse_deepseek_response(full)
             ELSE [thinking |-> <<>>, final_answer |-> full]
    IN  [role |-> "assistant",
         content |-> IF r.final_answer # <<>> THEN r.final_answer ELSE full,
         thinking |-> r.thinking]

\* the turn written over the last one
OverwriteLast(msgs, turn) ==
    IF msgs = <<>> THEN <<turn>> ELSE [msgs EXCEPT ![Len(msgs)] = turn]

\* st.session_state.messages.append(turn)
AppendTurn(msgs, turn) == Append(msgs, turn)

\* answers to the sidebar's GET /api/tags: none, an error status, a body that
\* is no JSON, and catalogs of at most one descriptor
SidebarTags ==
    { Failure, Response(500, [json |-> "invalid"]), Response(200, [json |-> "invalid"]) }
    \cup { Response(200, [json |-> "object",
                          fields |-> [models |-> [type |-> "list", items |-> c]]]) :
              c \in {<<>>} \cup { <<d>> : d \in Descriptors } }

\* what the sidebar shows after the connection check
SidebarStatus(p, t, wrapped) ==
    IF ~check_connection(p) THEN "unreachable"
    ELSE LET m == get_models(t, wrapped)
         IN  IF m.raised # "none" THEN "exception"
             ELSE IF \E i \in 1..Len(m.models) : m.models[i] = DEEPSEEK_MODEL
             THEN "model_available"
             ELSE "model_missing"

\* over every answer of the server and both builds
SidebarOutcomes ==
    { SidebarStatus(p, t, wrapped) :
          p \in ProbeResponses, t \in SidebarTags, wrapped \in BOOLEAN }

Init ==
    /\ messages = <<>>
    /\ show_thinking = TRUE
    /\ pc = "idle"
    /\ full_response = <<>>
    /\ thinking = <<>>
    /\ final_answer = <<>>
    /\ thinking_placeholder = <<>>
    /\ status = "none"
    /\ turn_end = "none"
    /\ fragments = <<>>
    /\ delivered = 0
    /\ SplitIdle /\ ConnIdle /\ StreamIdle

\* the button "연결 확인"
ConnectionCheck ==
    /\ pc = "idle"
    /\ status' \in SidebarOutcomes
    /\ turn_end' = "none"
    /\ thinking_placeholder' = <<>>
    /\ fragments' = <<>>
    /\ UNCHANGED <<messages, show_thinking, pc, full_response, thinking,
                   final_answer, delivered,
                   splitVars, connVars, streamVars>>

\* the checkbox "추론 과정 보기"
ToggleShowThinking ==
    /\ pc = "idle"
    /\ show_thinking' = ~show_thinking
    /\ status' = "none"
    /\ turn_end' = "none"
    /\ thinking_placeholder' = <<>>
    /\ fragments' = <<>>
    /\ UNCHANGED <<messages, pc, full_response, thinking, final_answer,
                   delivered, splitVars, connVars, streamVars>>

\* the button "대화 기록 삭제"
DeleteHistory ==
    /\ pc = "idle"
    /\ messages' = <<>>
    /\ status' = "none"
    /\ turn_end' = "none"
    /\ thinking_placeholder' = <<>>
    /\ fragments' = <<>>
    /\ UNCHANGED <<show_thinking, pc, full_response, thinking, final_answer,
                   delivered, splitVars, connVars, streamVars>>

\* a sample-question button: the run that sets sample_question and reruns,
\* and the rerun that appends the question and deletes sample_question
SampleQuestion ==
    /\ pc = "idle"
    /\ Len(messages) < MaxMessages
    /\ \E question \in sample_questions :
          messages' = AppendTurn(messages, UserTurn(question))
    /\ status' = "none"
    /\ turn_end' = "none"
    /\ thinking_placeholder' = <<>>
    /\ fragments' = <<>>
    /\ UNCHANGED <<show_thinking, pc, full_response, thinking, final_answer,
                   delivered, splitVars, connVars, streamVars>>

\* the chat input: the user's turn is appended and the stream is opened
Submit ==
    /\ pc = "idle"
    /\ Len(messages) + 2 <= MaxMessages
    /\ \E template_prefix \in template_options, prompt_input \in Prompts :
          LET full_prompt == IF template_prefix # <<>>
                             THEN template_prefix \o prompt_input
                             ELSE prompt_input
          IN  messages' = AppendTurn(messages, UserTurn(full_prompt))
    /\ pc' = "streaming"
    /\ full_response' = <<>>
    /\ thinking' = <<>>
    /\ final_answer' = <<>>
    /\ thinking_placeholder' = <<>>
    /\ fragments' = <<>>
    /\ status' = "none"
    /\ turn_end' = "none"
    /\ UNCHANGED <<show_thinking, delivered, splitVars, connVars, streamVars>>

\* one pass of the loop over response_stream
Chunk ==
    /\ pc = "streaming"
    /\ delivered < MaxChunks
    /\ \E chunk \in Chunks :
          /\ full_response' = Accumulate(full_response, chunk)
          /\ fragments' = Append(fragments, chunk)
    /\ LET r == parse_deepseek_response(full_response')
       IN  /\ thinking' = r.thinking
           /\ final_answer' = r.final_answer
           /\ thinking_placeholder' =
                 IF show_thinking /\ r.thinking # <<>>
                 THEN r.thinking ELSE thinking_placeholder
    /\ delivered' = delivered + 1
    /\ UNCHANGED <<messages, show_thinking, pc, status, turn_end,
                   splitVars, connVars, streamVars>>

\* the stream is exhausted: the final split, then the turn is stored
StreamEnds ==
    /\ pc = "streaming"
    /\ LET r == parse_deepseek_response(full_response)
       IN  thinking_placeholder' =
               IF show_thinking /\ r.thinking # <<>>
               THEN r.thinking ELSE thinking_placeholder
    /\ messages' = AppendTurn(messages, AssistantTurn(full_response))
    /\ turn_end' = "completed"
    /\ pc' = "idle"
    /\ full_response' = <<>>
    /\ thinking' = <<>>
    /\ final_answer' = <<>>
    /\ UNCHANGED <<show_thinking, status, fragments, delivered,
                   splitVars, connVars, streamVars>>

\* the stream raises: except Exception, then the error message is stored
StreamRaises ==
    /\ pc = "streaming"
    /\ \E e \in StreamExceptions :
          messages' = AppendTurn(messages, AssistantTurn(ErrorMsg(e)))
    /\ turn_end' = "raised"
    /\ pc' = "idle"
    /\ full_response' = <<>>
    /\ thinking' = <<>>
    /\ final_answer' = <<>>
    /\ UNCHANGED <<show_thinking, thinking_placeholder, status, fragments,
                   delivered, splitVars, connVars, streamVars>>

Next ==
    \/ ConnectionCheck
    \/ ToggleShowThinking
    \/ DeleteHistory
    \/ SampleQuestion
    \/ Submit
    \/ Chunk
    \/ StreamEnds
    \/ StreamRaises

Spec == Init /\ [][Next]_vars

----------------------------------------------------------------------------
(* Claims about the splitter, stated without the regular-expression scan *)

\* an opening marker at i with a closing marker after it
ClosedOpenerAt(s, i) ==
    /\ MatchAt(s, i, OpenTag)
    /\ \E j \in (i + Len(OpenTag))..Len(s) : MatchAt(s, j, CloseTag)

\* the first closing marker after the opening marker at i
CloserOf(s, i) ==
    Min({j \in (i + Len(OpenTag))..Len(s) : MatchAt(s, j, CloseTag)})

\* s holds a closed block: an opening marker with a closing marker after it
HasClosedBlock(s) == \E i \in 1..Len(s) : ClosedOpenerAt(s, i)

\* the blocks <<opening position, closing position>> one left-to-right pass
\* takes from position pos on
RECURSIVE PassBlocks(_, _)
PassBlocks(s, pos) ==
    LET O == {i \in pos..Len(s) : ClosedOpenerAt(s, i)}
    IN  IF O = {} THEN {}
        ELSE LET i == Min(O)
                 j == CloserOf(s, i)
             IN  {<<i, j>>} \cup PassBlocks(s, j + Len(CloseTag))

\* the code points of s at the positions in P, in order
RECURSIVE Pick(_, _, _)
Pick(s, P, i) ==
    IF i > Len(s) THEN <<>>
    ELSE (IF i \in P THEN <<s[i]>> ELSE <<>>) \o Pick(s, P, i + 1)

\* s without the blocks of the pass
WithoutBlocks(s) ==
    LET B == PassBlocks(s, 1)
        covered == {p \in 1..Len(s) :
                       \E b \in B : b[1] <= p /\ p <= b[2] + Len(CloseTag) - 1}
    IN  Pick(s, (1..Len(s)) \ covered, 1)

\* the decompositions prefix + <think> + R + </think> + suffix of s, R without
\* markers, as <<position of <think>, position of </think>>>
Decompositions(s) ==
    {d \in {i \in 1..Len(s) : MatchAt(s, i, OpenTag)}
             \X {j \in 1..Len(s) : MatchAt(s, j, CloseTag)} :
        /\ d[2] >= d[1] + Len(OpenTag)
        /\ LET R == SubSeq(s, d[1] + Len(OpenTag), d[2] - 1)
           IN  ~Contains(R, OpenTag) /\ ~Contains(R, CloseTag)}

PrefixOf(s, d) == SubSeq(s, 1, d[1] - 1)
ROf(s, d) == SubSeq(s, d[1] + Len(OpenTag), d[2] - 1)
SuffixOf(s, d) == Tail_from(s, d[2] + Len(CloseTag))

Decomposed(s, d) ==
    [thinking |-> strip(ROf(s, d)),
     final_answer |-> strip(PrefixOf(s, d) \o SuffixOf(s, d))]

\* C1 as claimed: for every text prefix + <think> + R + </think> + suffix, R
\* without markers and prefix and suffix arbitrary, the splitter returns
\* reasoning trim(R) and answer trim(prefix + suffix).
C1_AnyPrefixSuffix ==
    split_pc # "start" =>
        \A d \in Decompositions(response) :
            split_result = Decomposed(response, d)

\* C1 amended: the same, for a prefix without an opening marker and a suffix
\* without a closed block (an opening marker followed by a closing marker).
C1_CleanPrefixSuffix ==
    split_pc # "start" =>
        \A d \in Decompositions(response) :
            (/\ ~Contains(PrefixOf(response, d), OpenTag)
             /\ ~HasClosedBlock(SuffixOf(response, d)))
            => split_result = Decomposed(response, d)

\* C1's case: a split text with a non-empty prefix, a non-blank R and a suffix
\* holding a closing marker of its own.
C1_Witness ==
    /\ split_pc = "split"
    /\ \E d \in Decompositions(response) :
          /\ ~Contains(PrefixOf(response, d), OpenTag)
          /\ ~HasClosedBlock(SuffixOf(response, d))
          /\ PrefixOf(response, d) # <<>>
          /\ strip(ROf(response, d)) # <<>>
          /\ Contains(SuffixOf(response, d), CloseTag)

\* C2 as claimed: splitting the answer again returns the same answer and an
\* empty reasoning.
C2_ResplitStable ==
    split_pc = "resplit" =>
        resplit_result = [thinking |-> <<>>,
                          final_answer |-> split_result.final_answer]

\* C3: with several closed blocks the reasoning is the trimmed content of the
\* leftmost block, closed at the first closing marker after its opening
\* marker, and the answer is the trimmed text without every block of the
\* left-to-right pass; a closing marker with no opening marker before it stays
\* in the answer and the reasoning is that of the text after it.
C3_FirstBlockAllRemoved ==
    split_pc # "start" =>
        /\ Cardinality(PassBlocks(response, 1)) >= 2 =>
              LET i == Min({k \in 1..Len(response) : ClosedOpenerAt(response, k)})
                  j == CloserOf(response, i)
              IN  /\ split_result.thinking =
                        strip(SubSeq(response, i + Len(OpenTag), j - 1))
                  /\ split_result.final_answer = strip(WithoutBlocks(response))
        /\ \A c \in 1..Len(response) :
              (/\ MatchAt(response, c, CloseTag)
               /\ \A i \in 1..c : ~MatchAt(response, i, OpenTag))
              => LET rest == Tail_from(response, c + Len(CloseTag))
                 IN  /\ split_result.thinking = parse_deepseek_response(rest).thinking
                     /\ split_result.final_answer =
                            strip(SubSeq(response, 1, c + Len(CloseTag) - 1)
                                  \o WithoutBlocks(rest))

\* C3's case: a split text with a closing marker before any opening marker,
\* then two closed blocks.
C3_Witness ==
    /\ split_pc = "split"
    /\ Cardinality(PassBlocks(response, 1)) >= 2
    /\ \E c \in 1..Len(response) :
          /\ MatchAt(response, c, CloseTag)
          /\ \A i \in 1..c : ~MatchAt(response, i, OpenTag)
    /\ split_result.thinking # <<>>

----------------------------------------------------------------------------
(* Claims about the chat turn and the conversation *)

Last(q) == q[Len(q)]
Front(q) == SubSeq(q, 1, Len(q) - 1)

IsPrefix(p, q) == Len(p) <= Len(q) /\ \A i \in 1..Len(p) : p[i] = q[i]

\* the first opening marker of s has a closing marker after it
OpenerClosed(s) ==
    /\ Contains(s, OpenTag)
    /\ ClosedOpenerAt(s, Min({i \in 1..Len(s) : MatchAt(s, i, OpenTag)}))

\* the first opening marker of s has no closing marker after it
OpenerUnclosed(s) == Contains(s, OpenTag) /\ ~OpenerClosed(s)

\* C4: at every fragment after which the first opening marker of the
\* accumulated text has no closing marker after it, the splitter returns an
\* empty reasoning and the whole trimmed text as the answer; the reasoning
\* turns non-empty only at a fragment that completes a closing marker after
\* that opening marker.
C4_UnclosedIsAnswer ==
    [][ (pc' = "streaming" /\ Len(fragments') = Len(fragments) + 1) =>
          /\ OpenerUnclosed(full_response') =>
                (thinking' = <<>> /\ final_answer' = strip(full_response'))
          /\ (thinking = <<>> /\ thinking' # <<>>) =>
                (~OpenerClosed(full_response) /\ OpenerClosed(full_response'))
      ]_vars

\* C4's case: the reasoning has turned non-empty at a fragment that holds only
\* the end of the closing marker, the opening marker unclosed until then.
C4_Witness ==
    /\ pc = "streaming"
    /\ Len(fragments) >= 2
    /\ thinking # <<>>
    /\ OpenerUnclosed(Concat(Front(fragments)))
    /\ ~Contains(Last(fragments), CloseTag)

\* C5 as claimed: after a turn whose stream ran to its end, the stored turn
\* holds the answer and the reasoning of the concatenated fragments.
C5_StoredIsSplit ==
    turn_end = "completed" =>
        LET r == parse_deepseek_response(Concat(fragments))
        IN  Last(messages) = [role |-> "assistant",
                              content |-> r.final_answer,
                              thinking |-> r.thinking]

\* C5 amended: the stored turn holds the reasoning of the concatenated
\* fragments and their answer, or the concatenated text itself where that
\* answer is empty; where the concatenated text begins with "오류" it holds
\* the text itself and an empty reasoning.
C5_StoredIsSplitOrRaw ==
    turn_end = "completed" =>
        LET T == Concat(fragments)
            r == parse_deepseek_response(T)
        IN  Last(messages) =
               IF startswith(T, ErrPrefix)
               THEN [role |-> "assistant", content |-> T, thinking |-> <<>>]
               ELSE [role |-> "assistant",
                     content |-> IF r.final_answer = <<>> THEN T ELSE r.final_answer,
                     thinking |-> r.thinking]

\* C5's case: a completed turn of three fragments or more, the closing marker
\* cut across two of them, stored with its reasoning and an answer that is not
\* the raw text.
C5_Witness ==
    /\ turn_end = "completed"
    /\ Len(fragments) >= 3
    /\ \A i \in 1..Len(fragments) : ~Contains(fragments[i], CloseTag)
    /\ Last(messages).thinking # <<>>
    /\ Last(messages).content # <<>>
    /\ Last(messages).content # Concat(fragments)

\* C10 as claimed: after every interaction the conversation before it is a
\* prefix of the conversation after it.
C10_AppendOnly == [][IsPrefix(messages, messages')]_vars

\* C10 amended: the button that deletes the history empties the conversation;
\* after every other interaction the conversation before it is a prefix of the
\* conversation after it.
C10_AppendOnlyButDelete ==
    [][IF DeleteHistory THEN messages' = <<>> ELSE IsPrefix(messages, messages')]_vars

\* C10's case: a conversation of three turns, a user's turn appended after an
\* assistant's.
C10_Witness ==
    /\ Len(messages) >= 3
    /\ messages[Len(messages) - 1].role = "assistant"
    /\ Last(messages).role = "user"

----------------------------------------------------------------------------
(* Claims about chat_stream *)

IsJsonObject(line) == line.raw = "json" /\ line.data.type = "object"

\* a line that is no JSON, no UTF-8, no JSON object, or whose message is no
\* object
Malformed(line) ==
    \/ line.raw \in {"bad_json", "bad_utf8"}
    \/ line.raw = "json" /\ line.data.type # "object"
    \/ /\ IsJsonObject(line)
       /\ "message" \in DOMAIN line.data.fields
       /\ line.data.fields.message.type # "object"

\* a well-formed line that carries a message content field
CarriesContent(line) ==
    /\ IsJsonObject(line)
    /\ "message" \in DOMAIN line.data.fields
    /\ line.data.fields.message.type = "object"
    /\ "content" \in DOMAIN line.data.fields.message.fields

\* a well-formed line whose done flag is true
IsDoneLine(line) ==
    /\ IsJsonObject(line)
    /\ ~Malformed(line)
    /\ "done" \in DOMAIN line.data.fields
    /\ line.data.fields.done = TRUE

\* the content values of the lines of w that carry one, in order, up to and
\* including the first done line
RECURSIVE ContentsUntilDone(_)
ContentsUntilDone(w) ==
    IF w = <<>> THEN <<>>
    ELSE (IF CarriesContent(Head(w))
          THEN <<Head(w).data.fields.message.fields.content>> ELSE <<>>)
         \o (IF IsDoneLine(Head(w)) THEN <<>> ELSE ContentsUntilDone(Tail(w)))

\* C6 as claimed: a malformed line is skipped: reading it yields no fragment
\* and raises nothing, and the loop goes on to the next line.
C6_MalformedSkipped ==
    [][ (lines_read' = lines_read + 1 /\ Malformed(wire[lines_read'])) =>
          (yielded' = yielded /\ exc' = "none" /\ cs_pc' = "reading") ]_vars

\* C7 as claimed: on a success status and without a transport failure, the
\* sequence ends normally and the fragments yielded are the content values of
\* the well-formed lines, in wire order, up to and including the first done
\* line.
C7_ContentsUntilDone ==
    (status_code = 200 /\ ~failed /\ cs_pc \in {"ended", "raised"}) =>
        (cs_pc = "ended" /\ exc = "none" /\ yielded = ContentsUntilDone(wire))

IsConnError(f) == \E e \in TransportErrors : f = ConnError(e)

\* C8: after a transport failure, at the request or between two lines, the
\* generator has ended without raising, one error string is among the
\* fragments yielded and it is the last one, and one request was posted.
C8_OneErrorThenEnd ==
    failed =>
        /\ cs_pc = "ended"
        /\ exc = "none"
        /\ posts = 1
        /\ yielded # <<>>
        /\ IsConnError(Last(yielded))
        /\ Cardinality({i \in 1..Len(yielded) : IsConnError(yielded[i])}) = 1

\* C8's case: the transport failed after two lines were read and a fragment
\* was yielded.
C8_Witness ==
    /\ failed
    /\ lines_read >= 2
    /\ Len(yielded) >= 2
    /\ ~IsConnError(yielded[1])

----------------------------------------------------------------------------
(* Claims about get_models *)

\* the failures: no answer, a status that is not 200, a body that is no JSON
\* or no object, a catalog with a descriptor without a name
FailedCatalog(t) ==
    \/ t.kind = "failure"
    \/ t.status_code # 200
    \/ t.body.json # "object"
    \/ /\ "models" \in DOMAIN t.body.fields
       /\ t.body.fields.models.type = "list"
       /\ \E i \in 1..Len(t.body.fields.models.items) :
             "name" \notin DOMAIN t.body.fields.models.items[i]

\* C9 as claimed: on every failure get_models returns an empty sequence and
\* raises nothing.
C9_EmptyOnFailure ==
    (conn_pc \in {"done", "raised"} /\ is_connected /\ FailedCatalog(tags)) =>
        (conn_pc = "done" /\ models = NoModels)

====
